---- MODULE Spec2Model ----
\* Recipe Explorer: the search aggregation layer.
\* combined_search fans one query out to the local store and to the remote
\* provider as two asyncio tasks, gathers both, and merges under a cap.
\* Strings are sequences of one-character strings, so that strip(), lower()
\* and the substring test of the store search are computed, not assumed.
EXTENDS Integers, Sequences, FiniteSets, TLC

VARIABLES
    store,      \* RecipeStorage._recipes: the stored recipes, in dict (insertion) order
    intPatch,   \* a stub installed over SearchService._search_internal, or NoPatch
    extPatch,   \* a stub installed over SearchService._search_external, or NoPatch
    session,    \* TheMealDBAdapter.session: "none" or "open"
    pc,         \* per request: "idle", "gather" (suspended in await gather), "done"
    rawQuery,   \* per request: the {query} path parameter as the route received it
    query,      \* per request: the query handed to combined_search (already stripped)
    limit,      \* per request: the limit handed to combined_search
    task,       \* per request and branch: "none", "ready", "waiting", "done"
    out,        \* per request and branch: the outcome the branch task finished with
    readyQ,     \* the event loop's FIFO queue of callbacks ready to run
    errlog,     \* per request: the errors and warnings logged so far
    resp,       \* per request: the HTTP response, status 0 while there is none
    accepted,   \* history: the requests that reached combined_search, in that order
    answered,   \* history: the requests combined_search has returned for, in that order
    sessionId,  \* the number of sessions created so far; the current one is the last
    openSessions, \* the sessions created and not closed, by number
    app,        \* "running", or "stopped" once the application has shut down
    op,         \* per adapter operation slot: the operation in flight and its result
    clock,      \* the wall clock read by datetime.now()
    crud,       \* the last create/update/delete/get request and its response
    uuids,      \* the ids uuid4 has given to created recipes
    thread,     \* per threadpool thread: the create/update/delete request it handles
    pin,        \* the input of the parsing function under test
    pout        \* its output, with the intermediate step lists

\* The adapter's session and the adapter operations in flight.
adapterVars == <<openSessions, app, op>>

\* The clock and the last request to the CRUD surface.
catalogVars == <<clock, crud, uuids, thread>>

\* The pure parsing functions.
parseVars == <<pin, pout>>

\* The combined search and the requests in flight through it.
callVars == <<intPatch, extPatch, pc, rawQuery, query, limit, task, out, readyQ, errlog, resp,
              accepted, answered>>

vars == <<store, intPatch, extPatch, session, pc, rawQuery, query, limit, task, out,
          readyQ, errlog, resp, accepted, answered, sessionId,
          adapterVars, catalogVars, parseVars>>

\* ---------------------------------------------------------------- bounds
\* The ingredient slots of a provider record that are filled in.
MaxSlots == 3

\* The segments (a run of letters and a separator) an instructions text is
\* made of.
MaxSegments == 2

\* The sessions the adapter creates in a run.
MaxSessions == 2

\* The last value of the clock at which a recipe is created or updated.
MaxClock == 4

\* `limit: int = 20` of the search endpoint.
DefaultLimit == 20

MaxLimit == 2       \* limits 1..MaxLimit are requested
MaxMeals == 2       \* longest meals list of a provider response

\* The requests handled concurrently by the one event loop.
Calls == {"a", "b"}
Branches == {"int", "ext"}

\* ------------------------------------------------------------------ text
\* str.lower() on one character
LowerChar(ch) ==
    CASE ch = "P" -> "p"
      [] ch = "E" -> "e"
      [] ch = "Z" -> "z"
      [] OTHER -> ch

\* str.lower()
Lower(s) == [i \in 1..Len(s) |-> LowerChar(s[i])]

\* str.isspace() on one character
IsSpace(ch) == ch \in {" ", "\n", "\r", "\t"}

\* str.lstrip()
RECURSIVE LStrip(_)
LStrip(s) == IF s # <<>> /\ IsSpace(Head(s)) THEN LStrip(Tail(s)) ELSE s

\* str.rstrip()
RECURSIVE RStrip(_)
RStrip(s) ==
    IF s # <<>> /\ IsSpace(s[Len(s)]) THEN RStrip(SubSeq(s, 1, Len(s) - 1)) ELSE s

\* str.strip()
Strip(s) == RStrip(LStrip(s))

\* Python's `sub in s` on strings
Contains(sub, s) ==
    \E i \in 0..(Len(s) - Len(sub)) : SubSeq(s, i + 1, i + Len(sub)) = sub

\* Python's seq[:n], negative n included
Take(s, n) ==
    IF n >= 0
    THEN SubSeq(s, 1, IF n < Len(s) THEN n ELSE Len(s))
    ELSE SubSeq(s, 1, IF Len(s) + n > 0 THEN Len(s) + n ELSE 0)

\* Python's seq[n:] for n >= 0.
Drop(s, n) == SubSeq(s, n + 1, Len(s))

\* str.startswith
StartsWith(s, prefix) ==
    Len(s) >= Len(prefix) /\ SubSeq(s, 1, Len(prefix)) = prefix

\* The largest element of a non-empty set of integers.
MaxOf(S) == CHOOSE m \in S : \A x \in S : x <= m

\* The smallest element of a non-empty set of integers.
MinOf(S) == CHOOSE m \in S : \A x \in S : m <= x

\* --------------------------------------------------------------- recipes
\* str(uuid.uuid4()): hexadecimal digits; k tells the generated ids apart.
InternalId(k) == <<"e", "0">> \o k

\* f"ext_{meal['idMeal']}"
ExternalId(k) == <<"e", "x", "t", "_">> \o k

MkRecipe(id, title, description, ingredients, tags, cuisine, source) ==
    [id |-> id, title |-> title, description |-> description,
     ingredients |-> ingredients, tags |-> tags, cuisine |-> cuisine,
     source |-> source, created_at |-> 0, updated_at |-> 0]

\* Records a recipes.json file may hold when the store is loaded.
R1 == MkRecipe(InternalId(<<"1">>), <<"P", "a">>, <<"z">>, << <<"z">> >>, << <<"z">> >>,
               <<"Z">>, "internal")
R2 == MkRecipe(InternalId(<<"2">>), <<"Z">>, <<"a", " ", "p", "a">>, << <<"E", "g">> >>,
               << <<"z">> >>, <<"Z">>, "internal")
R3 == MkRecipe(ExternalId(<<"9">>), <<"p", "a">>, <<"z">>, << <<"z">> >>, << <<"e", "g">> >>,
               <<"Z">>, "external")

InitialStores == { <<>>, <<R1, R2>>, <<R2, R3, R1>> }

\* ------------------------------------------------------- remote provider
\* A provider record; wellFormed = FALSE stands for a record from which no
\* valid Recipe can be built (no idMeal, no ingredient, ...).
Meal(k, name, ok) == [idMeal |-> k, strMeal |-> name, wellFormed |-> ok]

ProviderMeals ==
    { Meal(<<"1">>, <<"P", "a">>, TRUE), Meal(<<"2">>, <<"E", "g">>, TRUE), Meal(<<"3">>, <<"z">>, FALSE) }

\* The meals lists a response can carry: no record twice, MaxMeals at most.
MealLists ==
    { ms \in UNION { [1..n -> ProviderMeals] : n \in 0..MaxMeals } :
        \A i, j \in 1..Len(ms) : i # j => ms[i] # ms[j] }

\* What one provider request can end in.
ProviderOutcomes ==
    { [kind |-> "ok", meals |-> ms] : ms \in MealLists }
    \cup { [kind |-> k, meals |-> <<>>] :
             k \in {"null", "status", "timeout", "client", "badjson"} }

\* --------------------------------------------------------- local catalog
\* The any-field test of RecipeStorage.search_recipes; q is already lowered.
Matches(q, r) ==
    \/ Contains(q, Lower(r.title))
    \/ Contains(q, Lower(r.description))
    \/ \E i \in 1..Len(r.ingredients) : Contains(q, Lower(r.ingredients[i]))
    \/ \E i \in 1..Len(r.tags) : Contains(q, Lower(r.tags[i]))
    \/ Contains(q, Lower(r.cuisine))

\* RecipeStorage.search_recipes: the INTERNAL records that match, in dict order.
search_recipes(recipes, q) ==
    SelectSeq(recipes, LAMBDA r : r.source = "internal" /\ Matches(Lower(q), r))

\* ------------------------------------------------------- call outcomes
Pending == [kind |-> "pending", val |-> <<>>]
Returned(list) == [kind |-> "ok", val |-> list]
Raised == [kind |-> "exc", val |-> <<>>]

\* ----------------------------------------------------- provider adapter
\* Mutation of transform_meal_to_recipe: the Recipe is marked INTERNAL.
transform_meal_as_internal(meal) ==
    MkRecipe(ExternalId(meal.idMeal), meal.strMeal, <<"z">>, << <<"z">> >>, <<>>,
             <<"Z">>, "internal")

\* TheMealDBAdapter._transform_meal_to_recipe, for a record it accepts.
transform_meal_to_recipe(meal) ==
    MkRecipe(ExternalId(meal.idMeal), meal.strMeal, <<"z">>, << <<"z">> >>, <<>>,
             <<"Z">>, "external")

\* The loop of TheMealDBAdapter.search_recipes: a record whose transformation
\* raises is skipped, the others are kept in response order.
RECURSIVE TransformAll(_)
TransformAll(meals) ==
    IF meals = <<>> THEN <<>>
    ELSE IF Head(meals).wellFormed
         THEN <<transform_meal_to_recipe(Head(meals))>> \o TransformAll(Tail(meals))
         ELSE TransformAll(Tail(meals))

\* What a provider request can end in besides ProviderOutcomes: a 200 whose
\* JSON is not an object ("notdict"), a 200 whose meals is not a list of
\* records ("badmeals"), and a non-200 status whose body carries meals.
WireReplies(bodies) ==
    { [kind |-> "ok", meals |-> ms] : ms \in bodies }
    \cup { [kind |-> "status", meals |-> ms] : ms \in bodies }
    \cup { [kind |-> k, meals |-> <<>>] :
             k \in {"null", "timeout", "client", "badjson", "notdict", "badmeals"} }

\* The replies of a request that succeeded: a 200 whose body carries a
\* record the adapter can transform.
CarriesRecord(reply) ==
    reply.kind = "ok" /\ reply.meals # <<>> /\ reply.meals[1].wellFormed

\* The replies that are a timeout, a transport error, a non-200 status or a
\* malformed response.
FailureKinds == {"timeout", "client", "status", "badjson", "notdict", "badmeals"}

\* What `await self._make_request(...)` evaluates to: None, the decoded body,
\* or the exception a stub installed by the tests raises.
NoData == [kind |-> "None", meals |-> <<>>]
StubRaised == [kind |-> "raised", meals |-> <<>>]

\* TheMealDBAdapter._make_request: the decoded body of a 200 response; None
\* for another status and for every exception (timeout, client error, a body
\* that is not JSON).
make_request(reply) ==
    IF reply.kind \in {"timeout", "client", "badjson"} THEN NoData
    ELSE IF reply.kind = "status" THEN NoData
    ELSE reply

\* `not data or not data.get('meals')`; data.get raises when data is not a dict.
no_meals(data) == data.kind \in {"None", "null"} \/ (data.kind = "ok" /\ data.meals = <<>>)

\* Mutation of Catch: the exception leaves the adapter.
NoCatch(o, default) == o

\* `try: ... except Exception: return default` around a method body.
Catch(o, default) == IF o.kind = "exc" THEN Returned(default) ELSE o

\* The try body of TheMealDBAdapter.search_recipes on what _make_request gave.
search_body(data) ==
    IF data.kind \in {"raised", "notdict"} THEN Raised
    ELSE IF no_meals(data) THEN Returned(<<>>)
    ELSE IF data.kind = "badmeals" THEN Returned(<<>>)
    ELSE Returned(TransformAll(data.meals))

\* TheMealDBAdapter.search_recipes.
adapter_search(data) == Catch(search_body(data), <<>>)

\* Mutation of lookup_meal_id: one character less is removed.
lookup_meal_id_short(meal_id) ==
    IF StartsWith(meal_id, <<"e", "x", "t", "_">>) THEN Drop(meal_id, 3)
    ELSE meal_id

\* `if meal_id.startswith('ext_'): meal_id = meal_id[4:]`
lookup_meal_id(meal_id) ==
    IF StartsWith(meal_id, <<"e", "x", "t", "_">>) THEN Drop(meal_id, 4)
    ELSE meal_id

\* The try body of TheMealDBAdapter.get_recipe_by_id; None is <<>>, a Recipe r
\* is <<r>>.
lookup_body(data) ==
    IF data.kind \in {"raised", "notdict"} THEN Raised
    ELSE IF no_meals(data) THEN Returned(<<>>)
    ELSE IF data.kind = "badmeals" THEN Raised
    ELSE IF data.meals[1].wellFormed THEN Returned(<<transform_meal_to_recipe(data.meals[1])>>)
    ELSE Raised

\* TheMealDBAdapter.get_recipe_by_id.
adapter_lookup(data) == Catch(lookup_body(data), <<>>)

\* The loop of TheMealDBAdapter.get_random_recipes over the gathered
\* responses: a response that is a dict with meals gives its first record,
\* transformed; an exception, None or a failed transformation gives nothing.
RECURSIVE random_body(_)
random_body(datas) ==
    IF datas = <<>> THEN <<>>
    ELSE (IF Head(datas).kind = "ok" /\ Head(datas).meals # <<>>
             /\ Head(datas).meals[1].wellFormed
          THEN <<transform_meal_to_recipe(Head(datas).meals[1])>>
          ELSE <<>>) \o random_body(Tail(datas))

\* Mutation of adapter_random: only the first response is looked at.
adapter_random_first_only(datas) ==
    Catch(Returned(random_body(<<Head(datas)>>)), <<>>)

\* TheMealDBAdapter.get_random_recipes.
adapter_random(datas) == Catch(Returned(random_body(datas)), <<>>)

\* TheMealDBAdapter.search_recipes on the outcome of its one request: every
\* failure of _make_request is None, and None or no meals is the empty list.
adapter_search_recipes(reply) == adapter_search(make_request(reply)).val

\* What _make_request and search_recipes log for that outcome.
AdapterLog(reply) ==
    (CASE reply.kind = "timeout" -> {"timeout"}
       [] reply.kind = "client"  -> {"client_error"}
       [] reply.kind = "badjson" -> {"unexpected_error"}
       [] reply.kind = "status"  -> {"bad_status"}
       [] OTHER -> {})
    \cup (IF \E i \in 1..Len(reply.meals) : ~reply.meals[i].wellFormed
          THEN {"transform_error"} ELSE {})

\* Mutation of session_missing: a closed session is taken for a usable one.
session_is_none(s) == s = "none"

\* `if self.session is None or self.session.closed`
session_missing(s) == s = "none" \/ s = "closed"

\* TheMealDBAdapter._get_session: a session is created when there is none.
get_session(s) == IF session_missing(s) THEN "open" ELSE s

\* ------------------------------------------------------- branch outcomes
\* Stubs the tests install over the two branch coroutines.
NoPatch == [kind |-> "none", val |-> <<>>]
MockInternal ==
    << MkRecipe(InternalId(<<"7">>), <<"z">>, <<"z">>, << <<"z">> >>, << <<"z">> >>, <<"Z">>,
                "internal"),
       MkRecipe(InternalId(<<"8">>), <<"Z">>, <<"z">>, << <<"z">> >>, << <<"z">> >>, <<"Z">>,
                "internal") >>
MockExternal ==
    << MkRecipe(ExternalId(<<"7">>), <<"z">>, <<"z">>, << <<"z">> >>, <<>>, <<"Z">>, "external"),
       MkRecipe(ExternalId(<<"8">>), <<"Z">>, <<"z">>, << <<"z">> >>, <<>>, <<"Z">>, "external") >>
IntPatches ==
    { NoPatch, [kind |-> "return", val |-> MockInternal], [kind |-> "raise", val |-> <<>>] }
ExtPatches ==
    { NoPatch, [kind |-> "return", val |-> MockExternal], [kind |-> "raise", val |-> <<>>] }

\* A stubbed branch coroutine: return_value or side_effect.
PatchedOutcome(patch) == IF patch.kind = "raise" THEN Raised ELSE Returned(patch.val)

\* SearchService._search_internal: the storage search, any exception of it
\* turned into the empty list.
search_internal(recipes, q, raises) ==
    IF raises THEN Returned(<<>>) ELSE Returned(search_recipes(recipes, q))

\* SearchService._search_external once the adapter call has returned.
search_external(reply) == Returned(adapter_search_recipes(reply))

\* ------------------------------------------------------- combined_search
\* Mutation of GatherDone: the wait ends with the first task that is done.
GatherFirstCompleted(t) == t.int = "done" \/ t.ext = "done"

\* asyncio.gather(internal_task, external_task, return_exceptions=True)
\* completes when both tasks are done.
GatherDone(t) == t.int = "done" /\ t.ext = "done"

\* Mutation of HandleInternalException: the exception is left in place.
KeepInternalException(o) == o

\* `if isinstance(internal_recipes, Exception): internal_recipes = []`
HandleInternalException(o) == IF o.kind = "exc" THEN Returned(<<>>) ELSE o

\* Mutation of HandleExternalException: the exception is left in place.
KeepExternalException(o) == o

\* `if isinstance(external_recipes, Exception): external_recipes = []`
HandleExternalException(o) == IF o.kind = "exc" THEN Returned(<<>>) ELSE o

\* Mutation of AllRecipes: external results first.
AllRecipesExternalFirst(internal_recipes, external_recipes) ==
    external_recipes \o internal_recipes

\* Mutation of AllRecipes: the merged list is kept in state shared by all
\* requests, so a request appends to what an earlier answer left there.
AllRecipesShared(internal_recipes, external_recipes) ==
    LET earlier == { d \in Calls : pc[d] = "done" /\ resp[d].status = 200 }
    IN  IF earlier = {} THEN internal_recipes \o external_recipes
        ELSE resp[CHOOSE d \in earlier : TRUE].body.recipes
             \o internal_recipes \o external_recipes

\* `all_recipes = internal_recipes + external_recipes`
AllRecipes(internal_recipes, external_recipes) == internal_recipes \o external_recipes

\* `if len(all_recipes) > limit: all_recipes = all_recipes[:limit]`
LimitResults(all_recipes, lim) ==
    IF Len(all_recipes) > lim THEN Take(all_recipes, lim) ELSE all_recipes

\* Mutation of SearchResult: total_count is the number found, not returned.
SearchResultTotalFound(all_recipes, internal_recipes, external_recipes, q) ==
    [recipes |-> all_recipes,
     total_count |-> Len(internal_recipes) + Len(external_recipes),
     internal_count |-> Len(internal_recipes),
     external_count |-> Len(external_recipes),
     query |-> q]

\* Mutation of SearchResult: the per-source counts are taken from the
\* truncated list.
SearchResultCappedCounts(all_recipes, internal_recipes, external_recipes, q) ==
    [recipes |-> all_recipes,
     total_count |-> Len(all_recipes),
     internal_count |-> Len(SelectSeq(all_recipes, LAMBDA r : r.source = "internal")),
     external_count |-> Len(SelectSeq(all_recipes, LAMBDA r : r.source = "external")),
     query |-> q]

\* The SearchResult built on the normal path.
SearchResult(all_recipes, internal_recipes, external_recipes, q) ==
    [recipes |-> all_recipes,
     total_count |-> Len(all_recipes),
     internal_count |-> Len(internal_recipes),
     external_count |-> Len(external_recipes),
     query |-> q]

\* The SearchResult of the `except Exception` path.
EmptyResult(q) ==
    [recipes |-> <<>>, total_count |-> 0, internal_count |-> 0, external_count |-> 0,
     query |-> q]

\* combined_search from the point where gather has returned the two task
\* results: a result that is still no list makes `+` raise, which the outer
\* handler turns into the empty result.
combined_search(oi, oe, q, lim) ==
    LET i == HandleInternalException(oi)
        e == HandleExternalException(oe)
    IN  IF i.kind = "ok" /\ e.kind = "ok"
        THEN SearchResult(LimitResults(AllRecipes(i.val, e.val), lim), i.val, e.val, q)
        ELSE EmptyResult(q)

\* What combined_search logs after gather.
CombinedLog(oi, oe) ==
    (IF oi.kind = "exc" THEN {"internal_search_failed"} ELSE {})
    \cup (IF oe.kind = "exc" THEN {"external_search_failed"} ELSE {})
    \cup (IF HandleInternalException(oi).kind # "ok" \/ HandleExternalException(oe).kind # "ok"
          THEN {"combined_search_error"} ELSE {})

\* ------------------------------------------------------------- responses
NoResponse == [status |-> 0, message |-> "", body |-> EmptyResult(<<>>)]

\* create_error_response
create_error_response(status, message) ==
    [status |-> status, message |-> message, body |-> EmptyResult(<<>>)]

\* Mutation of SearchResponse: a search that found nothing is answered 404.
SearchResponseNotFound(result) ==
    IF result.total_count = 0
    THEN [status |-> 404, message |-> "No recipes found", body |-> result]
    ELSE [status |-> 200, message |-> "", body |-> result]

\* The body search_recipes_combined returns for a SearchResult (status 200).
SearchResponse(result) == [status |-> 200, message |-> "", body |-> result]

\* ------------------------------------------------------------ idle values
\* The slots for adapter operations running concurrently.
Ops == {"x", "y"}

\* kind: the adapter method; arg: its argument; asked: what the request
\* carries; n: the requests it makes; reqs: those requests; used: the
\* sessions they were sent on; fails: the requests that failed.
NoOp == [kind |-> "none", phase |-> "idle", arg |-> <<>>, asked |-> <<>>, n |-> 0,
         reqs |-> <<>>, used |-> {}, fails |-> 0, oks |-> 0, result |-> Pending]

NoCrud ==
    [op |-> "none", rid |-> <<>>, title |-> <<>>, status |-> 0, result |-> <<>>,
     remote |-> "none"]

\* The threadpool threads that run the handlers declared with `def`.
Threads == {"s", "t"}
NoThread == [op |-> "none", pc |-> "idle", rid |-> <<>>, title |-> <<>>, status |-> 0]

NoInput == [kind |-> "none"]
NoOutput == [kind |-> "none"]

\* ------------------------------------------------------------ event loop
TaskItem(c, b) == [kind |-> "task", call |-> c, branch |-> b]
ResumeItem(c) == [kind |-> "resume", call |-> c, branch |-> "ext"]
WakeItem(c) == [kind |-> "wake", call |-> c, branch |-> ""]

\* The queue after the running callback is popped and branch b of request c,
\* now in state t, has finished: the last task to finish wakes the coroutine
\* suspended in gather.
AfterTaskDone(c, t) ==
    IF GatherDone(t) /\ pc[c] = "gather"
    THEN Append(Tail(readyQ), WakeItem(c))
    ELSE Tail(readyQ)

\* The adapter with no session and no operation, the application running.
AdapterIdle ==
    /\ openSessions = {}
    /\ app = "running"
    /\ op = [o \in Ops |-> NoOp]

\* No request to the CRUD surface yet.
CatalogIdle ==
    /\ clock = 1
    /\ crud = NoCrud
    /\ uuids = {}
    /\ thread = [t \in Threads |-> NoThread]

\* No parsing function applied.
ParseIdle ==
    /\ pin = NoInput
    /\ pout = NoOutput

RawQueries == { <<" ", "P", "a", " ">>, <<"e", "g">>, <<"p", " ">>, <<" ">> }

Limits == 1..MaxLimit

\* No search request yet.
CallsIdle ==
    /\ pc = [c \in Calls |-> "idle"]
    /\ rawQuery = [c \in Calls |-> <<>>]
    /\ query = [c \in Calls |-> <<>>]
    /\ limit = [c \in Calls |-> 0]
    /\ task = [c \in Calls |-> [int |-> "none", ext |-> "none"]]
    /\ out = [c \in Calls |-> [int |-> Pending, ext |-> Pending]]
    /\ readyQ = <<>>
    /\ errlog = [c \in Calls |-> {}]
    /\ resp = [c \in Calls |-> NoResponse]
    /\ accepted = <<>>
    /\ answered = <<>>

Init ==
    /\ store \in InitialStores
    /\ intPatch \in IntPatches
    /\ extPatch \in ExtPatches
    /\ session = "none"
    /\ CallsIdle
    /\ sessionId = 0
    /\ AdapterIdle
    /\ CatalogIdle
    /\ ParseIdle

\* Mutation of query_error: the length is taken of the untrimmed query.
query_error_untrimmed(q) ==
    IF Strip(q) = <<>> THEN "Search query cannot be empty"
    ELSE IF Len(q) < 2 THEN "Search query must be at least 2 characters long"
    ELSE ""

\* The query checks of the search route: the message of the 400 response,
\* the empty string when the query passes.
query_error(q) ==
    IF q = <<>> \/ Strip(q) = <<>> THEN "Search query cannot be empty"
    ELSE IF Len(Strip(q)) < 2 THEN "Search query must be at least 2 characters long"
    ELSE ""

\* GET /api/recipes/search/{query}?limit=N up to its first suspension: the
\* query checks, then combined_search creates the internal task, then the
\* external task, and awaits gather.
search_recipes_combined(c, raw, lim) ==
    /\ pc[c] = "idle"
    /\ rawQuery' = [rawQuery EXCEPT ![c] = raw]
    /\ IF query_error(raw) # ""
       THEN /\ resp' = [resp EXCEPT ![c] = create_error_response(400, query_error(raw))]
            /\ pc' = [pc EXCEPT ![c] = "done"]
            /\ UNCHANGED <<query, limit, task, readyQ, accepted>>
       ELSE /\ query' = [query EXCEPT ![c] = Strip(raw)]
            /\ limit' = [limit EXCEPT ![c] = lim]
            /\ task' = [task EXCEPT ![c] = [int |-> "ready", ext |-> "ready"]]
            /\ readyQ' = readyQ \o <<TaskItem(c, "int"), TaskItem(c, "ext")>>
            /\ pc' = [pc EXCEPT ![c] = "gather"]
            /\ accepted' = Append(accepted, c)
            /\ UNCHANGED resp
    /\ UNCHANGED <<store, intPatch, extPatch, session, out, errlog, answered, sessionId>>
    /\ UNCHANGED <<adapterVars, catalogVars, parseVars>>

\* The event loop runs the internal task: _search_internal has no suspension
\* point, so the storage search runs to its end in this one step.
RunInternalTask(c) ==
    /\ readyQ # <<>>
    /\ Head(readyQ) = TaskItem(c, "int")
    /\ \E raises \in BOOLEAN :
          /\ intPatch.kind # "none" => ~raises
          /\ out' = [out EXCEPT ![c].int =
                        IF intPatch.kind = "none"
                        THEN search_internal(store, query[c], raises)
                        ELSE PatchedOutcome(intPatch)]
          /\ errlog' = [errlog EXCEPT ![c] =
                           @ \cup (IF raises THEN {"storage_error"} ELSE {})]
    /\ task' = [task EXCEPT ![c].int = "done"]
    /\ readyQ' = AfterTaskDone(c, task'[c])
    /\ UNCHANGED <<store, intPatch, extPatch, session, pc, rawQuery, query, limit, resp,
                   accepted, answered, sessionId>>
    /\ UNCHANGED <<adapterVars, catalogVars, parseVars>>

\* The event loop runs the external task up to its first suspension:
\* _search_external -> search_recipes -> _make_request -> _get_session, then
\* the GET is sent and the task waits for the response.
RunExternalTask(c) ==
    /\ readyQ # <<>>
    /\ Head(readyQ) = TaskItem(c, "ext")
    /\ IF extPatch.kind = "none"
       THEN /\ session' = get_session(session)
            /\ sessionId' = IF session_missing(session) THEN sessionId + 1 ELSE sessionId
            /\ openSessions' = IF session_missing(session)
                                THEN openSessions \cup {sessionId + 1} ELSE openSessions
            /\ task' = [task EXCEPT ![c].ext = "waiting"]
            /\ readyQ' = Tail(readyQ)
            /\ UNCHANGED out
       ELSE /\ out' = [out EXCEPT ![c].ext = PatchedOutcome(extPatch)]
            /\ task' = [task EXCEPT ![c].ext = "done"]
            /\ readyQ' = AfterTaskDone(c, task'[c])
            /\ UNCHANGED <<session, sessionId, openSessions>>
    /\ UNCHANGED <<store, intPatch, extPatch, pc, rawQuery, query, limit, errlog, resp,
                   accepted, answered>>
    /\ UNCHANGED <<app, op, catalogVars, parseVars>>

\* The request of the waiting external task completes (an answer, the
\* timeout or a transport error): the loop marks the task ready to resume.
ProviderResponse(c) ==
    /\ task[c].ext = "waiting"
    /\ task' = [task EXCEPT ![c].ext = "replied"]
    /\ readyQ' = Append(readyQ, ResumeItem(c))
    /\ UNCHANGED <<store, intPatch, extPatch, session, pc, rawQuery, query, limit, out, errlog, resp,
                   accepted, answered, sessionId>>
    /\ UNCHANGED <<adapterVars, catalogVars, parseVars>>

\* The external task resumes with the outcome of its request, reply, and
\* runs to its return.
ResumeExternalTask(c, reply) ==
    /\ readyQ # <<>>
    /\ Head(readyQ) = ResumeItem(c)
    /\ out' = [out EXCEPT ![c].ext = search_external(reply)]
    /\ errlog' = [errlog EXCEPT ![c] = @ \cup AdapterLog(reply)]
    /\ task' = [task EXCEPT ![c].ext = "done"]
    /\ readyQ' = AfterTaskDone(c, task'[c])
    /\ UNCHANGED <<store, intPatch, extPatch, session, pc, rawQuery, query, limit, resp,
                   accepted, answered, sessionId>>
    /\ UNCHANGED <<adapterVars, catalogVars, parseVars>>

\* gather has completed: combined_search resumes, merges and returns, and the
\* handler answers.
ResumeCombinedSearch(c) ==
    /\ readyQ # <<>>
    /\ Head(readyQ) = WakeItem(c)
    /\ pc[c] = "gather"
    /\ resp' = [resp EXCEPT ![c] =
                   SearchResponse(combined_search(out[c].int, out[c].ext, query[c], limit[c]))]
    /\ errlog' = [errlog EXCEPT ![c] = @ \cup CombinedLog(out[c].int, out[c].ext)]
    /\ pc' = [pc EXCEPT ![c] = "done"]
    /\ readyQ' = Tail(readyQ)
    /\ answered' = Append(answered, c)
    /\ UNCHANGED <<store, intPatch, extPatch, session, rawQuery, query, limit, task, out, accepted,
                   sessionId>>
    /\ UNCHANGED <<adapterVars, catalogVars, parseVars>>

Next ==
    \/ \E c \in Calls, raw \in RawQueries, lim \in Limits : search_recipes_combined(c, raw, lim)
    \/ \E c \in Calls : RunInternalTask(c)
    \/ \E c \in Calls : RunExternalTask(c)
    \/ \E c \in Calls : ProviderResponse(c)
    \/ \E c \in Calls, reply \in ProviderOutcomes : ResumeExternalTask(c, reply)
    \/ \E c \in Calls : ResumeCombinedSearch(c)

Spec == Init /\ [][Next]_vars

\* ------------------------------------------------------ adapter operations
\* The arguments the adapter methods are called with.
AdapterQueries == { <<"p", "a">> }
LookupIds ==
    { ExternalId(<<"1">>), <<"1">>, ExternalId(<<"3">>), <<"4">>, InternalId(<<"1">>) }
Counts == {1, 2}

\* The meals lists of the search responses.
SearchBodies ==
    { <<>>, <<Meal(<<"1">>, <<"P", "a">>, TRUE)>>,
      <<Meal(<<"3">>, <<"z">>, FALSE), Meal(<<"2">>, <<"E", "g">>, TRUE)>> }

\* The one-record lists of the lookup and random responses.
SingleBodies == { <<m>> : m \in ProviderMeals }

\* One request of an operation: created, sent and awaited, or answered.
NewRequest == [st |-> "new", data |-> NoData]
SentRequest == [st |-> "sent", data |-> NoData]
GotRequest(data) == [st |-> "got", data |-> data]

\* lookup.php?i=n at the provider: the record with that id, if there is one.
ProviderLookup(n) == { ms \in SingleBodies : ms[1].idMeal = n }

\* What the provider can answer to a request of operation p.
RepliesFor(p) ==
    CASE p.kind = "search" -> WireReplies(SearchBodies)
      [] p.kind = "lookup" -> WireReplies(ProviderLookup(p.asked))
      [] OTHER -> WireReplies(SingleBodies)

\* The value an adapter method returns once its requests are answered.
AdapterResult(kind, datas) ==
    CASE kind = "search" -> adapter_search(datas[1])
      [] kind = "lookup" -> adapter_lookup(datas[1])
      [] OTHER -> adapter_random(datas)

\* The sessions created in a run are capped.
CanRequest == ~session_missing(session) \/ sessionId < MaxSessions

\* Mutation of UseSession: every request creates a session of its own.
UseOwnSession ==
    /\ session' = "open"
    /\ sessionId' = sessionId + 1
    /\ openSessions' = openSessions \cup {sessionId + 1}

\* `session = await self._get_session()` in _make_request.
UseSession ==
    /\ session' = get_session(session)
    /\ sessionId' = IF session_missing(session) THEN sessionId + 1 ELSE sessionId
    /\ openSessions' = IF session_missing(session)
                        THEN openSessions \cup {sessionId + 1} ELSE openSessions

\* themealdb_adapter.search_recipes(q) up to the await of its request.
AdapterSearch(o, q) ==
    /\ app = "running" /\ op[o].phase # "waiting" /\ CanRequest
    /\ UseSession
    /\ op' = [op EXCEPT ![o] =
                [kind |-> "search", phase |-> "waiting", arg |-> q, asked |-> q, n |-> 1,
                 reqs |-> <<SentRequest>>, used |-> {sessionId'}, fails |-> 0,
                 oks |-> 0, result |-> Pending]]
    /\ UNCHANGED <<store, callVars, app, catalogVars, parseVars>>

\* themealdb_adapter.get_recipe_by_id(id) up to the await of its request.
AdapterLookup(o, id) ==
    /\ app = "running" /\ op[o].phase # "waiting" /\ CanRequest
    /\ UseSession
    /\ op' = [op EXCEPT ![o] =
                [kind |-> "lookup", phase |-> "waiting", arg |-> id,
                 asked |-> lookup_meal_id(id), n |-> 1,
                 reqs |-> <<SentRequest>>, used |-> {sessionId'}, fails |-> 0,
                 oks |-> 0, result |-> Pending]]
    /\ UNCHANGED <<store, callVars, app, catalogVars, parseVars>>

\* themealdb_adapter.get_random_recipes(count) up to the await of gather: one
\* task per request is created, none has run yet.
AdapterRandom(o, count) ==
    /\ app = "running" /\ op[o].phase # "waiting"
    /\ op' = [op EXCEPT ![o] =
                [kind |-> "random", phase |-> "waiting", arg |-> <<>>, asked |-> <<>>,
                 n |-> count, reqs |-> [i \in 1..count |-> NewRequest], used |-> {},
                 fails |-> 0, oks |-> 0, result |-> Pending]]
    /\ UNCHANGED <<store, callVars, session, sessionId, openSessions, app,
                   catalogVars, parseVars>>

\* The event loop runs the next task of a gather: _make_request up to the
\* await of the response.
RunRequest(o) ==
    /\ app = "running" /\ CanRequest
    /\ \E i \in 1..Len(op[o].reqs) :
          /\ op[o].reqs[i].st = "new"
          /\ \A j \in 1..(i - 1) : op[o].reqs[j].st # "new"
          /\ UseSession
          /\ op' = [op EXCEPT ![o].reqs[i] = SentRequest,
                               ![o].used = @ \cup {sessionId'}]
    /\ UNCHANGED <<store, callVars, app, catalogVars, parseVars>>

\* The provider answers request i of operation o; _make_request returns, and
\* with the last answer the method runs to its return.
ProviderReply(o, i, reply) ==
    /\ app = "running"
    /\ i \in 1..Len(op[o].reqs)
    /\ op[o].reqs[i].st = "sent"
    /\ reply \in RepliesFor(op[o])
    /\ LET reqs == [op[o].reqs EXCEPT ![i] = GotRequest(make_request(reply))]
           fails == op[o].fails + (IF reply.kind \in FailureKinds THEN 1 ELSE 0)
           oks == op[o].oks + (IF CarriesRecord(reply) THEN 1 ELSE 0)
       IN  IF \A j \in 1..Len(reqs) : reqs[j].st = "got"
           THEN op' = [op EXCEPT ![o].phase = "done", ![o].reqs = <<>>,
                                 ![o].used = {}, ![o].fails = fails, ![o].oks = oks,
                                 ![o].result =
                                     AdapterResult(op[o].kind,
                                                   [j \in 1..Len(reqs) |-> reqs[j].data])]
           ELSE op' = [op EXCEPT ![o].reqs = reqs, ![o].fails = fails, ![o].oks = oks]
    /\ UNCHANGED <<store, callVars, session, sessionId, openSessions, app,
                   catalogVars, parseVars>>

\* An adapter method called while the tests have _make_request stubbed to
\* raise (timeout, client error, invalid JSON): it runs to its return at once.
StubbedCall(o, kind, count) ==
    /\ app = "running" /\ op[o].phase # "waiting"
    /\ kind = "random" \/ count = 1
    /\ op' = [op EXCEPT ![o] =
                [kind |-> kind, phase |-> "done", arg |-> <<>>, asked |-> <<>>,
                 n |-> count, reqs |-> <<>>, used |-> {}, fails |-> count, oks |-> 0,
                 result |-> AdapterResult(kind, [j \in 1..count |-> StubRaised])]]
    /\ UNCHANGED <<store, callVars, session, sessionId, openSessions, app,
                   catalogVars, parseVars>>

\* TheMealDBAdapter.close
Close ==
    /\ app = "running"
    /\ IF session = "open"
       THEN /\ session' = "closed"
            /\ openSessions' = openSessions \ {sessionId}
       ELSE UNCHANGED <<session, openSessions>>
    /\ UNCHANGED <<store, callVars, sessionId, app, op, catalogVars, parseVars>>

\* The application shuts down: main.py registers no shutdown handler, so
\* nothing runs at that point.
Shutdown ==
    /\ app = "running"
    /\ app' = "stopped"
    /\ UNCHANGED <<store, callVars, session, sessionId, openSessions, op,
                   catalogVars, parseVars>>

InitAdapter ==
    /\ store = <<>>
    /\ intPatch = NoPatch
    /\ extPatch = NoPatch
    /\ session = "none"
    /\ CallsIdle
    /\ sessionId = 0
    /\ AdapterIdle
    /\ CatalogIdle
    /\ ParseIdle

NextAdapter ==
    \/ \E o \in Ops, q \in AdapterQueries : AdapterSearch(o, q)
    \/ \E o \in Ops, id \in LookupIds : AdapterLookup(o, id)
    \/ \E o \in Ops, count \in Counts : AdapterRandom(o, count)
    \/ \E o \in Ops : RunRequest(o)
    \/ \E o \in Ops, i \in Counts, reply \in WireReplies(SearchBodies \cup SingleBodies) :
          ProviderReply(o, i, reply)
    \/ \E o \in Ops, kind \in {"search", "lookup", "random"}, count \in Counts :
          StubbedCall(o, kind, count)
    \/ Close
    \/ Shutdown

SpecAdapter == InitAdapter /\ [][NextAdapter]_vars

\* ================================================================ claims
Min(x, y) == IF x < y THEN x ELSE y

\* The first n elements of s (all of s when it is shorter), for n >= 0.
FirstN(s, n) == SubSeq(s, 1, Min(n, Len(s)))

\* combined_search was called for request c and has returned.
Answered(c) == pc[c] = "done" /\ resp[c].status # 400

\* What a branch contributed: the list it returned, nothing if it raised.
Produced(o) == IF o.kind = "ok" THEN o.val ELSE <<>>

\* The external branch of request c met an error (in the adapter, or as an
\* exception of the task).
ExternalFailed(c) ==
    errlog[c] \cap {"timeout", "client_error", "unexpected_error", "bad_status",
                    "external_search_failed"} # {}

\* The internal branch of request c met an error (the storage search raised,
\* or the task raised).
InternalFailed(c) == errlog[c] \cap {"storage_error", "internal_search_failed"} # {}

C2_InternalFirstPrefix ==
    \A c \in Calls :
        Answered(c) =>
            resp[c].body.recipes =
                FirstN(Produced(out[c].int) \o Produced(out[c].ext), limit[c])

\* C2 witness: a result holding an internal recipe followed by an external one.
C2_Witness ==
    \E c \in Calls :
        /\ Answered(c)
        /\ Produced(out[c].int) # <<>>
        /\ Produced(out[c].ext) # <<>>
        /\ Len(resp[c].body.recipes) >= 2
        /\ resp[c].body.recipes[1].source = "internal"
        /\ resp[c].body.recipes[Len(resp[c].body.recipes)].source = "external"

\* C3: internal_count and external_count are the numbers of recipes the two
\* branches produced, whatever the limit cut from the merged list.
C3_CountsUncapped ==
    \A c \in Calls :
        Answered(c) =>
            /\ resp[c].body.internal_count = Len(Produced(out[c].int))
            /\ resp[c].body.external_count = Len(Produced(out[c].ext))

\* C3 witness: a truncated result whose counts add up to more than it holds.
C3_Witness ==
    \E c \in Calls :
        /\ Answered(c)
        /\ Len(resp[c].body.recipes) = limit[c]
        /\ resp[c].body.internal_count > 0
        /\ resp[c].body.external_count > 0
        /\ resp[c].body.internal_count + resp[c].body.external_count
               > Len(resp[c].body.recipes)

\* C4: when the branches produce more than `limit` recipes, exactly `limit`
\* are returned and total_count is the number found in both sources.
C4_TotalCountIsFound ==
    \A c \in Calls :
        (Answered(c) /\ Len(Produced(out[c].int)) + Len(Produced(out[c].ext)) > limit[c])
        => /\ Len(resp[c].body.recipes) = limit[c]
           /\ resp[c].body.total_count =
                  Len(Produced(out[c].int)) + Len(Produced(out[c].ext))

\* C5: when the external branch fails, the call still returns, with
\* external_count 0, the internal matches counted and present up to the limit.
C5_ExternalFailureAbsorbed ==
    \A c \in Calls :
        (pc[c] = "done" /\ ExternalFailed(c)) =>
            /\ resp[c].status = 200
            /\ resp[c].body.external_count = 0
            /\ resp[c].body.internal_count = Len(Produced(out[c].int))
            /\ resp[c].body.recipes = FirstN(Produced(out[c].int), limit[c])

\* C5 witness: the external task raised and an internal match was returned.
C5_Witness ==
    \E c \in Calls :
        /\ pc[c] = "done"
        /\ out[c].ext.kind = "exc"
        /\ "external_search_failed" \in errlog[c]
        /\ resp[c].body.internal_count > 0
        /\ resp[c].body.recipes # <<>>

\* C6: when the internal branch fails, the caller gets no error and the
\* external branch is not suppressed: internal_count is 0, the external
\* matches are counted and present up to the limit.
C6_InternalFailureAbsorbed ==
    \A c \in Calls :
        (pc[c] = "done" /\ InternalFailed(c)) =>
            /\ resp[c].status = 200
            /\ resp[c].body.internal_count = 0
            /\ resp[c].body.external_count = Len(Produced(out[c].ext))
            /\ resp[c].body.recipes = FirstN(Produced(out[c].ext), limit[c])

\* C6 witness: the storage search raised and external matches were returned.
C6_Witness ==
    \E c \in Calls :
        /\ pc[c] = "done"
        /\ "storage_error" \in errlog[c]
        /\ resp[c].body.external_count > 0
        /\ resp[c].body.recipes # <<>>

\* C7: when both branches fail, the call returns the empty result for its
\* query and the endpoint answers 200 with it.
C7_BothFailedEmpty200 ==
    \A c \in Calls :
        (pc[c] = "done" /\ InternalFailed(c) /\ ExternalFailed(c)) =>
            /\ resp[c].status = 200
            /\ resp[c].body = [recipes |-> <<>>, total_count |-> 0, internal_count |-> 0,
                               external_count |-> 0, query |-> query[c]]

\* C7 witness: a request answered after both of its branches failed.
C7_Witness ==
    \E c \in Calls :
        /\ pc[c] = "done"
        /\ InternalFailed(c)
        /\ ExternalFailed(c)
        /\ query[c] # <<>>

\* C8: the result is produced only after both branch tasks have finished,
\* and a task that has not finished is never taken back or cancelled: from
\* ready, waiting or replied it only moves on towards done.
C8_AwaitsBoth ==
    /\ [](\A c \in Calls :
            Answered(c) => /\ task[c].int = "done" /\ out[c].int.kind # "pending"
                           /\ task[c].ext = "done" /\ out[c].ext.kind # "pending")
    /\ [][\A c \in Calls, b \in Branches :
            task[c][b] \in {"ready", "waiting", "replied"}
            => task'[c][b] \in {"ready", "waiting", "replied", "done"}]_vars

\* C8 witness: the internal task is done and the external request is still
\* outstanding, with the caller still suspended in gather.
C8_Witness ==
    \E c \in Calls :
        /\ pc[c] = "gather"
        /\ task[c].int = "done"
        /\ task[c].ext = "waiting"
        /\ resp[c].status = 0

\* C9: neither source query blocks the other: while both tasks of a request
\* are pending and the loop has reached them, the external request can be
\* issued without the internal search having finished.
C9_ExternalNotBlocked ==
    \A c \in Calls :
        (/\ task[c].int = "ready" /\ task[c].ext = "ready"
         /\ readyQ # <<>> /\ Head(readyQ).call = c)
        => ENABLED RunExternalTask(c)

IndexOf(recipes, id) ==
    IF \E i \in 1..Len(recipes) : recipes[i].id = id
    THEN CHOOSE i \in 1..Len(recipes) : recipes[i].id = id
    ELSE 0

\* RecipeStorage.get_all_recipes
get_all_recipes(recipes) == SelectSeq(recipes, LAMBDA r : r.source = "internal")

\* RecipeStorage.get_recipe; None is <<>>, a Recipe r is <<r>>.
storage_get_recipe(recipes, id) ==
    LET i == IndexOf(recipes, id)
    IN  IF i # 0 /\ recipes[i].source = "internal" THEN <<recipes[i]>> ELSE <<>>

\* A validated RecipeCreate / RecipeUpdate body.
RecipeData(title) ==
    [title |-> title, description |-> <<"z">>, ingredients |-> << <<"z">> >>,
     tags |-> <<>>, cuisine |-> <<"Z">>]

\* RecipeStorage.create_recipe, with the uuid and the clock value it draws.
storage_create_recipe(recipes, id, data, now) ==
    LET recipe == [MkRecipe(id, data.title, data.description, data.ingredients, data.tags,
                            data.cuisine, "internal")
                     EXCEPT !.created_at = now, !.updated_at = now]
    IN  [recipes |-> Append(recipes, recipe), result |-> <<recipe>>]

\* Mutation of storage_update_recipe: updated_at is left as it was.
storage_update_keep_time(recipes, id, data, now) ==
    LET i == IndexOf(recipes, id)
    IN  IF i = 0 \/ recipes[i].source # "internal"
        THEN [recipes |-> recipes, result |-> <<>>]
        ELSE LET recipe == [recipes[i] EXCEPT
                              !.title = data.title, !.description = data.description,
                              !.ingredients = data.ingredients, !.tags = data.tags,
                              !.cuisine = data.cuisine]
             IN  [recipes |-> [recipes EXCEPT ![i] = recipe], result |-> <<recipe>>]

\* RecipeStorage.update_recipe, with the clock value it reads.
storage_update_recipe(recipes, id, data, now) ==
    LET i == IndexOf(recipes, id)
    IN  IF i = 0 \/ recipes[i].source # "internal"
        THEN [recipes |-> recipes, result |-> <<>>]
        ELSE LET recipe == [recipes[i] EXCEPT
                              !.title = data.title, !.description = data.description,
                              !.ingredients = data.ingredients, !.tags = data.tags,
                              !.cuisine = data.cuisine, !.updated_at = now]
             IN  [recipes |-> [recipes EXCEPT ![i] = recipe], result |-> <<recipe>>]

\* Mutation of storage_delete_recipe: the source of the record is not looked at.
storage_delete_any_source(recipes, id) ==
    LET i == IndexOf(recipes, id)
    IN  IF i # 0
        THEN [recipes |-> SubSeq(recipes, 1, i - 1) \o SubSeq(recipes, i + 1, Len(recipes)),
              result |-> TRUE]
        ELSE [recipes |-> recipes, result |-> FALSE]

\* RecipeStorage.delete_recipe
storage_delete_recipe(recipes, id) ==
    LET i == IndexOf(recipes, id)
    IN  IF i # 0 /\ recipes[i].source = "internal"
        THEN [recipes |-> SubSeq(recipes, 1, i - 1) \o SubSeq(recipes, i + 1, Len(recipes)),
              result |-> TRUE]
        ELSE [recipes |-> recipes, result |-> FALSE]

\* Mutation of TitleTaken: the titles are compared as they are written.
TitleTakenExact(recipes, title, except) ==
    \E i \in 1..Len(recipes) :
        recipes[i].id # except /\ recipes[i].title = title

\* Some recipe of the list, other than the one with id `except`, has the title.
TitleTaken(recipes, title, except) ==
    \E i \in 1..Len(recipes) :
        recipes[i].id # except /\ Lower(recipes[i].title) = Lower(title)

\* What a handler of the CRUD surface leaves: the store, the status of the
\* response and the recipes in its body.
Outcome(recipes, status, result) ==
    [recipes |-> recipes, status |-> status, result |-> result]

\* POST /api/recipes on a validated body.
create_recipe(recipes, data, id, now) ==
    IF TitleTaken(get_all_recipes(recipes), data.title, <<>>)
    THEN Outcome(recipes, 409, <<>>)
    ELSE LET c == storage_create_recipe(recipes, id, data, now)
         IN  Outcome(c.recipes, 201, c.result)

\* PUT /api/recipes/{recipe_id}: the lookups use the stripped id, the
\* duplicate-title test the id as it came.
update_recipe(recipes, recipe_id, data, now) ==
    IF Strip(recipe_id) = <<>> THEN Outcome(recipes, 400, <<>>)
    ELSE IF storage_get_recipe(recipes, Strip(recipe_id)) = <<>>
    THEN Outcome(recipes, 404, <<>>)
    ELSE IF TitleTaken(get_all_recipes(recipes), data.title, recipe_id)
    THEN Outcome(recipes, 409, <<>>)
    ELSE LET u == storage_update_recipe(recipes, Strip(recipe_id), data, now)
         IN  IF u.result = <<>> THEN Outcome(u.recipes, 500, <<>>)
             ELSE Outcome(u.recipes, 200, u.result)

\* Mutation of delete_recipe: the answer of the storage is not looked at.
delete_recipe_always_ok(recipes, recipe_id) ==
    IF Strip(recipe_id) = <<>> THEN Outcome(recipes, 400, <<>>)
    ELSE LET d == storage_delete_recipe(recipes, Strip(recipe_id))
         IN  Outcome(d.recipes, 200, <<>>)

\* DELETE /api/recipes/{recipe_id}
delete_recipe(recipes, recipe_id) ==
    IF Strip(recipe_id) = <<>> THEN Outcome(recipes, 400, <<>>)
    ELSE LET d == storage_delete_recipe(recipes, Strip(recipe_id))
         IN  IF d.result THEN Outcome(d.recipes, 200, <<>>)
             ELSE Outcome(d.recipes, 404, <<>>)

\* GET /api/recipes/{recipe_id}: the local store first, then the provider.
get_recipe(recipes, recipe_id, reply) ==
    IF Strip(recipe_id) = <<>> THEN Outcome(recipes, 400, <<>>)
    ELSE LET internal == storage_get_recipe(recipes, Strip(recipe_id))
             external == adapter_lookup(make_request(reply)).val
         IN  IF internal # <<>> THEN Outcome(recipes, 200, internal)
             ELSE IF external # <<>> THEN Outcome(recipes, 200, external)
             ELSE Outcome(recipes, 404, <<>>)

\* Mutation of found_locally: the answer of the store is not looked at.
found_locally_never(recipes, recipe_id) == FALSE

\* `recipe = await search_service.get_internal_recipe(recipe_id.strip())`
\* returns instead of raising ValueError.
found_locally(recipes, recipe_id) == storage_get_recipe(recipes, Strip(recipe_id)) # <<>>

\* The bounds of count in GET /api/recipes/random and its default.
RandomCountMin == 1
RandomCountMax == 20
DefaultCount == 5

\* The handler get_random_recipes of the route /recipes/random.
get_random_recipes(recipes, count, replies) ==
    IF count < RandomCountMin \/ count > RandomCountMax THEN Outcome(recipes, 400, <<>>)
    ELSE LET datas == [i \in 1..Len(replies) |-> make_request(replies[i])]
         IN  Outcome(recipes, 200, adapter_random(datas).val)

\* The GET routes of the router that take /api/recipes/<segment>, in the
\* order the decorators register them.
RandomSegment == <<"r", "a", "n", "d", "o", "m">>
GetRoutes ==
    << [handler |-> "get_recipe", literal |-> FALSE, path |-> <<>>],
       [handler |-> "get_random_recipes", literal |-> TRUE, path |-> RandomSegment] >>

\* The route matches the segment: a path parameter takes every segment.
RouteMatches(route, segment) == ~route.literal \/ route.path = segment

\* The router hands the request to the first route, in registration order,
\* that matches.
Dispatch(segment) ==
    GetRoutes[MinOf({ i \in 1..Len(GetRoutes) : RouteMatches(GetRoutes[i], segment) })].handler

\* The requests the CRUD surface is exercised with.
Titles == { <<"p", "a">>, <<"Q">> }
UuidKeys == { <<"5">>, <<"6">> }
RequestIds ==
    { InternalId(<<"1">>), <<" ">> \o InternalId(<<"1">>), InternalId(<<"5">>),
      ExternalId(<<"9">>), ExternalId(<<"1">>), <<" ">> }
RandomCounts == { 0, 2, DefaultCount, 21 }
RandomReplies ==
    { [kind |-> "ok", meals |-> <<Meal(<<"1">>, <<"P", "a">>, TRUE)>>],
      [kind |-> "ok", meals |-> <<Meal(<<"3">>, <<"z">>, FALSE)>>],
      [kind |-> "timeout", meals |-> <<>>] }

\* The last request and its response; remote is what became of the provider
\* request the handler made, "none" when it made none.
Crud(name, rid, title, o, remote) ==
    [op |-> name, rid |-> rid, title |-> title, status |-> o.status, result |-> o.result,
     remote |-> remote]

\* A GET /api/recipes/{recipe_id} that awaits the provider; the requests are
\* taken one at a time, the next one after the response of this one.
GetPending == crud.op = "get" /\ crud.status = 0

\* A create or update request: datetime.now() is read when the request gets
\* as far as the storage write, and every reading is later than the one
\* before; uuid4 gives an id it has not given before.
CreateRecipe(title, key) ==
    /\ ~GetPending
    /\ clock < MaxClock
    /\ InternalId(key) \notin uuids
    /\ IndexOf(store, InternalId(key)) = 0
    /\ LET o == create_recipe(store, RecipeData(title), InternalId(key), clock)
       IN  /\ store' = o.recipes
           /\ crud' = Crud("create", <<>>, title, o, "none")
           /\ clock' = IF o.status = 201 THEN clock + 1 ELSE clock
           /\ uuids' = IF o.status = 201 THEN uuids \cup {InternalId(key)} ELSE uuids
    /\ UNCHANGED <<callVars, session, sessionId, adapterVars, thread, parseVars>>

UpdateRecipe(rid, title) ==
    /\ ~GetPending
    /\ clock < MaxClock
    /\ LET o == update_recipe(store, rid, RecipeData(title), clock)
       IN  /\ store' = o.recipes
           /\ crud' = Crud("update", rid, title, o, "none")
           /\ clock' = IF o.status \in {200, 500} THEN clock + 1 ELSE clock
    /\ UNCHANGED <<callVars, session, sessionId, adapterVars, uuids, thread, parseVars>>

DeleteRecipe(rid) ==
    /\ ~GetPending
    /\ LET o == delete_recipe(store, rid)
       IN  /\ store' = o.recipes
           /\ crud' = Crud("delete", rid, <<>>, o, "none")
    /\ UNCHANGED <<callVars, session, sessionId, adapterVars, clock, uuids, thread, parseVars>>

\* The handler get_recipe up to its response or to the await of the
\* provider: the provider is asked when the store has no INTERNAL record
\* with the id.
GetRecipe(rid) ==
    IF Strip(rid) = <<>> \/ found_locally(store, rid)
    THEN /\ crud' = Crud("get", rid, <<>>,
                         get_recipe(store, rid, [kind |-> "null", meals |-> <<>>]), "none")
         /\ UNCHANGED <<session, sessionId, openSessions>>
    ELSE /\ crud' = [op |-> "get", rid |-> rid, title |-> <<>>, status |-> 0,
                     result |-> <<>>, remote |-> "pending"]
         /\ UseSession

\* The handler get_random_recipes from request to response.
RandomRecipes(count, replies) ==
    /\ Len(replies) = (IF count \in RandomCountMin..RandomCountMax THEN count ELSE 0)
    /\ crud' = Crud("random", RandomSegment, <<>>,
                    get_random_recipes(store, count, replies), "none")
    /\ IF count \in RandomCountMin..RandomCountMax
       THEN UseSession
       ELSE UNCHANGED <<session, sessionId, openSessions>>

\* GET /api/recipes/<segment>?count=N: the router picks the handler.
GetRecipesPath(segment) ==
    /\ ~GetPending
    /\ IF Dispatch(segment) = "get_random_recipes"
       THEN \E count \in RandomCounts :
               \E replies \in UNION { [1..n -> RandomReplies] : n \in {0, count} } :
                  RandomRecipes(count, replies)
       ELSE GetRecipe(segment)
    /\ UNCHANGED <<store, callVars, app, op, clock, uuids, thread, parseVars>>

\* The provider answers the lookup of a pending GET /api/recipes/{recipe_id}
\* and the handler runs to its response.
GetRecipeReply(reply) ==
    /\ GetPending
    /\ reply \in RepliesFor([kind |-> "lookup", asked |-> lookup_meal_id(Strip(crud.rid))])
    /\ crud' = Crud("get", crud.rid, <<>>, get_recipe(store, crud.rid, reply), reply.kind)
    /\ UNCHANGED <<store, callVars, session, sessionId, adapterVars, clock, uuids, thread, parseVars>>

\* GET /api/recipes/search/{query} from request to response.
SearchRecipes(q, reply) ==
    /\ ~GetPending
    /\ LET result == combined_search(search_internal(store, q, FALSE),
                                     search_external(reply), q, DefaultLimit)
       IN  crud' = [op |-> "search", rid |-> q, title |-> <<>>, status |-> 200,
                    result |-> result.recipes, remote |-> reply.kind]
    /\ UseSession
    /\ UNCHANGED <<store, callVars, app, op, clock, uuids, thread, parseVars>>

InitCatalog ==
    /\ store \in InitialStores
    /\ intPatch = NoPatch
    /\ extPatch = NoPatch
    /\ session = "none"
    /\ CallsIdle
    /\ sessionId = 0
    /\ AdapterIdle
    /\ CatalogIdle
    /\ ParseIdle

NextCatalog ==
    \/ \E title \in Titles, key \in UuidKeys : CreateRecipe(title, key)
    \/ \E rid \in RequestIds, title \in Titles : UpdateRecipe(rid, title)
    \/ \E rid \in RequestIds : DeleteRecipe(rid)
    \/ \E segment \in RequestIds \cup {RandomSegment} : GetRecipesPath(segment)
    \/ \E reply \in WireReplies(SingleBodies) : GetRecipeReply(reply)
    \/ \E q \in AdapterQueries, reply \in WireReplies(SearchBodies) : SearchRecipes(q, reply)

SpecCatalog == InitCatalog /\ [][NextCatalog]_vars

\* ------------------------------------------------------ parsing: ingredients
\* `range(1, 21)`: the slots strIngredient1..20 / strMeasure1..20.
Slots == 20

\* What meal.get(key) gives: None, or the string under the key.
NoneValue == [some |-> FALSE, str |-> <<>>]
Str(s) == [some |-> TRUE, str |-> s]

\* `value and value.strip()`
NonBlank(v) == v.some /\ v.str # <<>> /\ Strip(v.str) # <<>>

\* Mutation of ingredient_entry: the name comes before the measure.
ingredient_entry_name_first(ingredient, measure) ==
    IF NonBlank(measure)
    THEN Strip(ingredient.str) \o <<" ">> \o Strip(measure.str)
    ELSE Strip(ingredient.str)

\* The entry appended for a slot with a non-blank ingredient.
ingredient_entry(ingredient, measure) ==
    IF NonBlank(measure)
    THEN Strip(measure.str) \o <<" ">> \o Strip(ingredient.str)
    ELSE Strip(ingredient.str)

\* The loop of _parse_ingredients from slot i on.
RECURSIVE parse_ingredients_from(_, _)
parse_ingredients_from(meal, i) ==
    IF i > Slots THEN <<>>
    ELSE (IF NonBlank(meal[i].ingredient)
          THEN <<ingredient_entry(meal[i].ingredient, meal[i].measure)>>
          ELSE <<>>) \o parse_ingredients_from(meal, i + 1)

\* TheMealDBAdapter._parse_ingredients
parse_ingredients(meal) == parse_ingredients_from(meal, 1)

\* The values a slot of a provider record holds.
IngredientValues == { NoneValue, Str(<<>>), Str(<<" ">>), Str(<<" ", "a">>), Str(<<"b", " ">>) }
MeasureValues == { NoneValue, Str(<<" ", " ">>), Str(<<" ", "1", " ">>) }

\* The provider records: the first MaxSlots slots are filled in, the others
\* are absent.
SlotMeals ==
    { [i \in 1..Slots |->
         IF i <= MaxSlots THEN [ingredient |-> f[i][1], measure |-> f[i][2]]
         ELSE [ingredient |-> NoneValue, measure |-> NoneValue]] :
      f \in [1..MaxSlots -> IngredientValues \X MeasureValues] }

\* _parse_ingredients applied to the record.
ParseIngredients ==
    /\ pin.kind = "ingredients" /\ pout.kind = "none"
    /\ pout' = [kind |-> "ingredients", ingredients |-> parse_ingredients(pin.meal)]
    /\ UNCHANGED <<store, callVars, session, sessionId, adapterVars, catalogVars, pin>>

\* ---------------------------------------------------- parsing: instructions
\* `MAX_STEP_LENGTH = 500`
MAX_STEP_LENGTH == 500

\* `range(MAX_STEP_LENGTH - 1, max(0, MAX_STEP_LENGTH - 100), -1)`
SentenceWindow == 100

\* `instructions_text[:10]`
DigitWindow == 10

\* `len(sentence.strip()) > 10`
MinSentenceLength == 10

\* str.isdigit() on one character
IsDigit(ch) == ch \in {"0", "1", "2", "3", "4", "5", "6", "7", "8", "9"}

\* "No instructions available"
NoInstructions ==
    <<"N", "o", " ", "i", "n", "s", "t", "r", "u", "c", "t", "i", "o", "n", "s", " ",
      "a", "v", "a", "i", "l", "a", "b", "l", "e">>

\* `any(char.isdigit() for char in instructions_text[:10])`
digit_in_head(text) == \E i \in 1..Len(Take(text, DigitWindow)) : IsDigit(text[i])

\* Where `\d+\.\s*` matches from position `from` on: at the start of a run of
\* digits that a full stop follows.
NumberStarts(text, from) ==
    { i \in from..Len(text) :
        /\ IsDigit(text[i])
        /\ (i = from \/ ~IsDigit(text[i - 1]))
        /\ \E j \in i..(Len(text) - 1) :
              /\ \A k \in i..j : IsDigit(text[k])
              /\ text[j + 1] = "." }

\* The last position of the match of `\d+\.\s*` that starts at i.
NumberEnd(text, i) ==
    LET dot == MinOf({ j \in i..Len(text) : text[j] = "." })
    IN  MaxOf({ k \in dot..Len(text) : \A x \in (dot + 1)..k : IsSpace(text[x]) })

\* re.split(r'\d+\.\s*', text), from position `from` on.
RECURSIVE split_numbered(_, _)
split_numbered(text, from) ==
    IF NumberStarts(text, from) = {}
    THEN <<SubSeq(text, from, Len(text))>>
    ELSE LET m == MinOf(NumberStarts(text, from))
         IN  <<SubSeq(text, from, m - 1)>> \o split_numbered(text, NumberEnd(text, m) + 1)

\* text.replace('\r\n', '\n').replace('\r', '\n')
normalize_newlines(text) ==
    LET indexed == [i \in 1..Len(text) |-> <<i, text[i]>>]
        kept == SelectSeq(indexed,
                          LAMBDA x : ~(x[2] = "\r" /\ x[1] < Len(text) /\ text[x[1] + 1] = "\n"))
    IN  [i \in 1..Len(kept) |-> IF kept[i][2] = "\r" THEN "\n" ELSE kept[i][2]]

\* str.split('\n'), from position `from` on.
RECURSIVE split_lines(_, _)
split_lines(text, from) ==
    IF { i \in from..Len(text) : text[i] = "\n" } = {}
    THEN <<SubSeq(text, from, Len(text))>>
    ELSE LET n == MinOf({ i \in from..Len(text) : text[i] = "\n" })
         IN  <<SubSeq(text, from, n - 1)>> \o split_lines(text, n + 1)

\* The steps of the text before the long ones are split: the numbered steps
\* or the lines long enough, and the whole text when that leaves nothing.
first_steps(text) ==
    LET parts == IF digit_in_head(text)
                 THEN SelectSeq(split_numbered(text, 1), LAMBDA x : Strip(x) # <<>>)
                 ELSE SelectSeq(split_lines(normalize_newlines(text), 1),
                                LAMBDA x : Strip(x) # <<>>
                                           /\ Len(Strip(x)) > MinSentenceLength)
        steps == [i \in 1..Len(parts) |-> Strip(parts[i])]
    IN  IF steps = <<>> THEN <<Strip(text)>> ELSE steps

\* The sentence-boundary search: the split position after the last `.`, `!`
\* or `?` of the window that a space (or the end) follows, -1 when none.
sentence_split(remaining) ==
    LET lo == IF MAX_STEP_LENGTH - SentenceWindow > 0
              THEN MAX_STEP_LENGTH - SentenceWindow ELSE 0
        found == { i \in (lo + 1)..(MAX_STEP_LENGTH - 1) :
                     /\ remaining[i + 1] \in {".", "!", "?"}
                     /\ (i + 1 >= Len(remaining) \/ remaining[i + 2] = " ") }
    IN  IF found = {} THEN -1 ELSE MaxOf(found) + 1

\* Mutation of rfind_space: the search is not limited to the first
\* MAX_STEP_LENGTH characters.
rfind_space_anywhere(remaining) ==
    LET found == { i \in 0..(Len(remaining) - 1) : remaining[i + 1] = " " }
    IN  IF found = {} THEN -1 ELSE MaxOf(found)

\* `remaining.rfind(' ', 0, MAX_STEP_LENGTH)`
rfind_space(remaining) ==
    LET found == { i \in 0..(MAX_STEP_LENGTH - 1) : remaining[i + 1] = " " }
    IN  IF found = {} THEN -1 ELSE MaxOf(found)

\* Mutation of split_position: the hard split at the limit is missing.
split_position_no_hard_split(remaining) ==
    LET s1 == sentence_split(remaining)
        s2 == IF s1 = -1 THEN rfind_space(remaining) ELSE s1
    IN  IF s2 <= 0 THEN 0 ELSE s2

\* The position at which the loop splits `remaining`.
split_position(remaining) ==
    LET s1 == sentence_split(remaining)
        s2 == IF s1 = -1 THEN rfind_space(remaining) ELSE s1
    IN  IF s2 <= 0 THEN MAX_STEP_LENGTH ELSE s2

\* Mutation of rest_after_split: the character at the split is skipped.
rest_after_split_skip(remaining, split_pos) == Strip(Drop(remaining, split_pos + 1))

\* `remaining = remaining[split_pos:].strip()`
rest_after_split(remaining, split_pos) == Strip(Drop(remaining, split_pos))

\* The `while remaining` loop: the pieces of one over-long step.
RECURSIVE split_long_step(_)
split_long_step(remaining) ==
    IF remaining = <<>> THEN <<>>
    ELSE IF Len(remaining) <= MAX_STEP_LENGTH THEN <<remaining>>
    ELSE LET split_pos == split_position(remaining)
         IN  <<Strip(Take(remaining, split_pos))>>
             \o split_long_step(rest_after_split(remaining, split_pos))

\* What one step contributes to final_steps.
split_step(step) ==
    IF Len(step) <= MAX_STEP_LENGTH THEN <<step>> ELSE split_long_step(step)

\* The concatenation of a sequence of sequences.
RECURSIVE Flatten(_)
Flatten(ss) == IF ss = <<>> THEN <<>> ELSE Head(ss) \o Flatten(Tail(ss))

\* TheMealDBAdapter._parse_instructions, with the steps before the split and
\* the pieces of each of them.
parse_instructions(text) ==
    IF text = <<>>
    THEN [steps |-> <<>>, pieces |-> <<>>, final |-> <<NoInstructions>>]
    ELSE LET steps == first_steps(text)
             pieces == [i \in 1..Len(steps) |-> split_step(steps[i])]
             final_steps == Flatten(pieces)
         IN  [steps |-> steps, pieces |-> pieces,
              final |-> IF final_steps = <<>> THEN <<NoInstructions>> ELSE final_steps]

\* A run of n letters.
Run(n) == [i \in 1..n |-> "a"]

\* The instructions texts: up to MaxSegments segments, each a run of letters
\* of a length around the limits of the code followed by a separator.
RunLengths == {0, 10, 405, 510}
Separators ==
    { <<>>, <<" ">>, <<" ", " ">>, <<".", " ">>, <<"\n">>, <<"1", ".", " ">> }
Segments == { Run(n) \o sep : n \in RunLengths, sep \in Separators }
InstructionTexts ==
    { Flatten(segs) : segs \in UNION { [1..n -> Segments] : n \in 0..MaxSegments } }

\* _parse_instructions applied to the text.
ParseInstructions ==
    /\ pin.kind = "instructions" /\ pout.kind = "none"
    /\ LET r == parse_instructions(pin.text)
       IN  pout' = [kind |-> "instructions", steps |-> r.steps, pieces |-> r.pieces,
                    final |-> r.final]
    /\ UNCHANGED <<store, callVars, session, sessionId, adapterVars, catalogVars, pin>>

InitParse ==
    /\ store = <<>>
    /\ intPatch = NoPatch
    /\ extPatch = NoPatch
    /\ session = "none"
    /\ CallsIdle
    /\ sessionId = 0
    /\ AdapterIdle
    /\ CatalogIdle
    /\ pin \in { [kind |-> "ingredients", meal |-> m] : m \in SlotMeals }
               \cup { [kind |-> "instructions", text |-> t] : t \in InstructionTexts }
    /\ pout = NoOutput

NextParse ==
    \/ ParseIngredients
    \/ ParseInstructions

SpecParse == InitParse /\ [][NextParse]_vars

\* ------------------------------------------- handlers in the threadpool
\* create_recipe, update_recipe and delete_recipe are declared with `def`, so
\* each request runs in a thread of the threadpool and the threads interleave
\* between the statements of the handlers: the duplicate-title test reads the
\* store, the storage call that follows writes it, and nothing holds a lock
\* from the one to the other.
ThreadIds == { InternalId(<<"1">>), InternalId(<<"5">>) }

\* The thread is free to take a request.
Free(t) == thread[t].pc \in {"idle", "done"}

\* POST /api/recipes up to the end of the duplicate-title loop.
CreateCheck(t, title) ==
    /\ Free(t)
    /\ thread' = [thread EXCEPT ![t] =
                    IF TitleTaken(get_all_recipes(store), title, <<>>)
                    THEN [op |-> "create", pc |-> "done", rid |-> <<>>, title |-> title,
                          status |-> 409]
                    ELSE [op |-> "create", pc |-> "checked", rid |-> <<>>, title |-> title,
                          status |-> 0]]
    /\ UNCHANGED <<store, callVars, session, sessionId, adapterVars, clock, crud, uuids,
                   parseVars>>

\* POST /api/recipes from recipe_storage.create_recipe to the response.
CreateWrite(t, key) ==
    /\ thread[t].op = "create" /\ thread[t].pc = "checked"
    /\ clock < MaxClock
    /\ InternalId(key) \notin uuids
    /\ IndexOf(store, InternalId(key)) = 0
    /\ store' = storage_create_recipe(store, InternalId(key), RecipeData(thread[t].title),
                                      clock).recipes
    /\ thread' = [thread EXCEPT ![t].pc = "done", ![t].rid = InternalId(key),
                                ![t].status = 201]
    /\ clock' = clock + 1
    /\ uuids' = uuids \cup {InternalId(key)}
    /\ UNCHANGED <<callVars, session, sessionId, adapterVars, crud, parseVars>>

\* PUT /api/recipes/{recipe_id} up to the end of the duplicate-title loop.
UpdateCheck(t, rid, title) ==
    /\ Free(t)
    /\ LET status == IF Strip(rid) = <<>> THEN 400
                     ELSE IF storage_get_recipe(store, Strip(rid)) = <<>> THEN 404
                     ELSE IF TitleTaken(get_all_recipes(store), title, rid) THEN 409
                     ELSE 0
       IN  thread' = [thread EXCEPT ![t] =
                        [op |-> "update", pc |-> IF status = 0 THEN "checked" ELSE "done",
                         rid |-> rid, title |-> title, status |-> status]]
    /\ UNCHANGED <<store, callVars, session, sessionId, adapterVars, clock, crud, uuids,
                   parseVars>>

\* PUT /api/recipes/{recipe_id} from recipe_storage.update_recipe to the
\* response; model_dump on the None of a recipe deleted in between raises,
\* which the handler answers 500.
UpdateWrite(t) ==
    /\ thread[t].op = "update" /\ thread[t].pc = "checked"
    /\ clock < MaxClock
    /\ LET u == storage_update_recipe(store, Strip(thread[t].rid),
                                      RecipeData(thread[t].title), clock)
       IN  /\ store' = u.recipes
           /\ thread' = [thread EXCEPT ![t].pc = "done",
                                       ![t].status = IF u.result = <<>> THEN 500 ELSE 200]
    /\ clock' = clock + 1
    /\ UNCHANGED <<callVars, session, sessionId, adapterVars, crud, uuids, parseVars>>

\* DELETE /api/recipes/{recipe_id}
DeleteRequest(t, rid) ==
    /\ Free(t)
    /\ LET o == delete_recipe(store, rid)
       IN  /\ store' = o.recipes
           /\ thread' = [thread EXCEPT ![t] =
                           [op |-> "delete", pc |-> "done", rid |-> rid, title |-> <<>>,
                            status |-> o.status]]
    /\ UNCHANGED <<callVars, session, sessionId, adapterVars, clock, crud, uuids, parseVars>>

InitThreads ==
    /\ store \in InitialStores
    /\ intPatch = NoPatch
    /\ extPatch = NoPatch
    /\ session = "none"
    /\ CallsIdle
    /\ sessionId = 0
    /\ AdapterIdle
    /\ CatalogIdle
    /\ ParseIdle

NextThreads ==
    \/ \E t \in Threads, title \in Titles : CreateCheck(t, title)
    \/ \E t \in Threads, key \in UuidKeys : CreateWrite(t, key)
    \/ \E t \in Threads, rid \in ThreadIds, title \in Titles : UpdateCheck(t, rid, title)
    \/ \E t \in Threads : UpdateWrite(t)
    \/ \E t \in Threads, rid \in ThreadIds : DeleteRequest(t, rid)

SpecThreads == InitThreads /\ [][NextThreads]_vars

\* ------------------------------------------------- the split loop
\* The `while remaining` loop of _parse_instructions, one iteration a step.
\* pout holds the loop's variables: remaining, the pieces appended to
\* final_steps by this loop, the split position of the last iteration and
\* whether the loop is still running.

\* The steps longer than the limit: the instructions texts that are trimmed,
\* of one line and without a digit among their first characters, each of
\* which is the one step first_steps takes from it.
LongSteps ==
    { t \in InstructionTexts :
         /\ Len(t) > MAX_STEP_LENGTH
         /\ ~IsSpace(t[1]) /\ ~IsSpace(t[Len(t)])
         /\ \A i \in 1..Len(t) : t[i] # "\n"
         /\ ~digit_in_head(t) }

\* `remaining = step`, before the first test of `while remaining`.
LoopStart(step) ==
    [kind |-> "split", remaining |-> step, final_steps |-> <<>>, split_pos |-> -1,
     pc |-> "loop"]

\* Lines 108-110: what remains fits, it is appended and the loop is left.
AppendRemaining ==
    /\ pout.kind = "split" /\ pout.pc = "loop"
    /\ pout.remaining # <<>>
    /\ Len(pout.remaining) <= MAX_STEP_LENGTH
    /\ pout' = [pout EXCEPT !.final_steps = Append(@, pout.remaining), !.pc = "done"]
    /\ UNCHANGED <<store, callVars, session, sessionId, adapterVars, catalogVars, pin>>

\* Lines 111-124: what remains is too long, a piece is split off it.
SplitRemaining ==
    /\ pout.kind = "split" /\ pout.pc = "loop"
    /\ pout.remaining # <<>>
    /\ Len(pout.remaining) > MAX_STEP_LENGTH
    /\ LET split_pos == split_position(pout.remaining)
       IN  pout' = [pout EXCEPT
                        !.final_steps = Append(@, Strip(Take(pout.remaining, split_pos))),
                        !.remaining = rest_after_split(pout.remaining, split_pos),
                        !.split_pos = split_pos]
    /\ UNCHANGED <<store, callVars, session, sessionId, adapterVars, catalogVars, pin>>

InitSplit ==
    /\ store = <<>>
    /\ intPatch = NoPatch
    /\ extPatch = NoPatch
    /\ session = "none"
    /\ CallsIdle
    /\ sessionId = 0
    /\ AdapterIdle
    /\ CatalogIdle
    /\ pin \in { [kind |-> "step", step |-> s] : s \in LongSteps }
    /\ pout = LoopStart(pin.step)

NextSplit ==
    \/ AppendRemaining
    \/ SplitRemaining

\* The loop is straight-line code of one running call: an iteration that
\* can run does run.
SpecSplit == InitSplit /\ [][NextSplit]_vars /\ WF_vars(NextSplit)

\* ---------------------------------------------------- adapter claims
\* Operation o ran through the real _make_request and has returned.
Finished(o) == op[o].phase = "done"

\* C11: a finished adapter call has not raised; when every request it made
\* ended in a timeout, a transport error, a non-200 status or a malformed
\* response it returned the empty list (search, random) or None (lookup), and
\* a failed request never contributes a recipe.
C11_FailuresReturnEmpty ==
    \A o \in Ops :
        Finished(o) =>
            /\ op[o].result.kind = "ok"
            /\ (op[o].fails = op[o].n => op[o].result.val = <<>>)
            /\ Len(op[o].result.val) <= op[o].n - op[o].fails

\* A search whose request failed has returned, and so has a random call with
\* one failed request out of two.
C11_Witness ==
    \E o1, o2 \in Ops :
        /\ Finished(o1) /\ op[o1].kind = "search" /\ op[o1].arg # <<>> /\ op[o1].fails = 1
        /\ Finished(o2) /\ op[o2].kind = "random" /\ op[o2].n = 2 /\ op[o2].fails = 1
        /\ Len(op[o2].result.val) = 1

\* Operation o sends a request in this step.
Issues(o) ==
    \E i \in 1..Len(op'[o].reqs) :
        /\ op'[o].reqs[i].st = "sent"
        /\ \/ op[o].phase # "waiting"
           \/ (i <= Len(op[o].reqs) /\ op[o].reqs[i].st = "new")

C13_ClosedOnShutdown == app = "stopped" => openSessions = {}

\* C14: get_recipe_by_id called with "ext_" + N or with N, N a native id of
\* the provider, queries the provider with exactly N, and the Recipe it
\* returns has id "ext_" + N; every Recipe a search or random call returns
\* has the id "ext_" + N of the record it was built from.
C14_IdRoundTrip ==
    \A o \in Ops :
        /\ \A m \in ProviderMeals :
              (op[o].kind = "lookup"
                 /\ op[o].arg \in { m.idMeal, <<"e", "x", "t", "_">> \o m.idMeal }) =>
                  /\ op[o].asked = m.idMeal
                  /\ (Finished(o) /\ op[o].result.val # <<>> =>
                         op[o].result.val[1].id = <<"e", "x", "t", "_">> \o m.idMeal)
        /\ Finished(o) =>
              \A i \in 1..Len(op[o].result.val) :
                  \E m \in ProviderMeals :
                      /\ op[o].result.val[i].id = <<"e", "x", "t", "_">> \o m.idMeal
                      /\ op[o].result.val[i].title = m.strMeal

\* A search returned a Recipe, and a lookup by that Recipe's id returned a
\* Recipe with the same id.
C14_Witness ==
    \E o1, o2 \in Ops :
        /\ Finished(o1) /\ op[o1].kind = "search" /\ op[o1].result.val # <<>>
        /\ Finished(o2) /\ op[o2].kind = "lookup"
        /\ op[o2].arg = op[o1].result.val[1].id
        /\ op[o2].result.val # <<>>
        /\ op[o2].result.val[1].id = op[o2].arg

\* ---------------------------------------------------- catalog claims
\* The source of recipe r and the prefix of its id agree.
SourceMatchesId(r) == (r.source = "external") <=> StartsWith(r.id, <<"e", "x", "t", "_">>)

\* C15: every recipe in the local store, and every recipe in the response of
\* a search, lookup, random, create or update request, has source EXTERNAL
\* if and only if its id starts with "ext_".
C15_SourceAgreesWithPrefix ==
    /\ \A i \in 1..Len(store) : SourceMatchesId(store[i])
    /\ \A i \in 1..Len(crud.result) : SourceMatchesId(crud.result[i])

\* The store holds a recipe created locally, and a search returned a local
\* recipe together with one built from a provider record.
C15_Witness ==
    /\ \E i \in 1..Len(store) : store[i].created_at > 0 /\ store[i].source = "internal"
    /\ crud.op = "search"
    /\ \E i, j \in 1..Len(crud.result) :
          crud.result[i].source = "internal" /\ crud.result[j].source = "external"

\* The EXTERNAL recipes in a store.
ExternalIn(recipes) == { recipes[i] : i \in { j \in 1..Len(recipes) : recipes[j].source = "external" } }

\* C16: an update or delete request whose id does not denote a stored
\* INTERNAL recipe is answered 404 and leaves the store as it was, and no
\* request of any kind adds an EXTERNAL recipe to the store.
C16_OnlyInternalMutable ==
    [][ /\ (crud'.op \in {"update", "delete"}
             /\ Strip(crud'.rid) # <<>>
             /\ storage_get_recipe(store, Strip(crud'.rid)) = <<>>) =>
               (crud'.status = 404 /\ crud'.result = <<>> /\ store' = store)
        /\ ExternalIn(store') \subseteq ExternalIn(store) ]_vars

\* A delete and an update of the stored EXTERNAL record were answered 404.
C16_Witness ==
    /\ crud.op \in {"update", "delete"}
    /\ crud.rid = <<"e", "x", "t", "_", "9">>
    /\ crud.status = 404
    /\ IndexOf(store, crud.rid) # 0

HasText(v) == v.some /\ \E i \in 1..Len(v.str) : ~IsSpace(v.str[i])

\* The string from its first to its last character that is not whitespace.
Trimmed(str) ==
    LET text == { i \in 1..Len(str) : ~IsSpace(str[i]) }
    IN  IF text = {} THEN <<>> ELSE SubSeq(str, MinOf(text), MaxOf(text))

C19_StepsWithinLimit ==
    pout.kind = "instructions" =>
        \A k \in 1..Len(pout.final) : Len(pout.final[k]) <= MAX_STEP_LENGTH

\* A step longer than the limit was split into three pieces or more, one of
\* them of exactly the limit.
C19_Witness ==
    /\ pout.kind = "instructions"
    /\ \E k \in 1..Len(pout.steps) :
          /\ Len(pout.steps[k]) > MAX_STEP_LENGTH
          /\ Len(pout.pieces[k]) >= 3
          /\ \E j \in 1..Len(pout.pieces[k]) : Len(pout.pieces[k][j]) = MAX_STEP_LENGTH

\* The text s is the pieces in order, with nothing but whitespace between
\* one piece and the next.
RECURSIVE Reassembles(_, _)
Reassembles(pieces, s) ==
    IF pieces = <<>> THEN s = <<>>
    ELSE LET p == Head(pieces)
             rest == SubSeq(s, Len(p) + 1, Len(s))
             text == { i \in 1..Len(rest) : ~IsSpace(rest[i]) }
         IN  /\ Len(p) <= Len(s)
             /\ SubSeq(s, 1, Len(p)) = p
             /\ Reassembles(Tail(pieces),
                            IF text = {} THEN <<>> ELSE SubSeq(rest, MinOf(text), Len(rest)))

\* C20: the pieces of a step longer than the limit are two or more, none
\* empty, and put together in order, with only whitespace between them, they
\* are the text of the step; the pieces appear in the output in that order.
C20_SplitKeepsContent ==
    pout.kind = "instructions" /\ pout.steps # <<>> =>
        /\ \A k \in 1..Len(pout.steps) :
              Len(pout.steps[k]) > MAX_STEP_LENGTH =>
                  /\ Len(pout.pieces[k]) >= 2
                  /\ \A j \in 1..Len(pout.pieces[k]) : pout.pieces[k][j] # <<>>
                  /\ Reassembles(pout.pieces[k], pout.steps[k])
        /\ pout.final = Flatten(pout.pieces)

\* A step was split after a sentence and then at the limit, and whitespace
\* was dropped at a break.
C20_Witness ==
    /\ pout.kind = "instructions"
    /\ \E k \in 1..Len(pout.steps) :
          /\ Len(pout.steps[k]) > MAX_STEP_LENGTH
          /\ Len(pout.pieces[k]) = 3
          /\ pout.pieces[k][1][Len(pout.pieces[k][1])] = "."
          /\ Len(pout.pieces[k][2]) = MAX_STEP_LENGTH
          /\ Len(pout.pieces[k][1]) + Len(pout.pieces[k][2]) + Len(pout.pieces[k][3])
                < Len(pout.steps[k])

\* C21: _parse_instructions returns at least one step and no returned step
\* is empty, whatever the text: an empty text gives the single placeholder
\* "No instructions available", and a text from which neither the numbered
\* split nor the line split takes a step gives its trimmed self as the
\* single step (split further only when longer than the limit).
C21_AtLeastOneNonEmptyStep ==
    pout.kind = "instructions" =>
        /\ Len(pout.final) >= 1
        /\ \A k \in 1..Len(pout.final) : pout.final[k] # <<>>
        /\ (pin.text = <<>> => pout.final = <<NoInstructions>>)
        /\ (pin.text # <<>> /\ Len(pout.steps) = 1 /\ pout.steps[1] = Trimmed(pin.text)
                /\ Len(Trimmed(pin.text)) <= MAX_STEP_LENGTH
             => pout.final = <<Trimmed(pin.text)>>)

\* C30: the split loop ends for every step longer than the limit: each
\* iteration that splits does so at a position of 1 or more, appends a piece
\* that is not empty and leaves a strictly shorter, non-empty remainder, and
\* the loop is eventually left.
C30_SplitLoopTerminates ==
    /\ [][pout.kind = "split" /\ pout'.kind = "split" /\ pout'.pc = "loop" =>
             /\ pout'.split_pos >= 1
             /\ pout'.final_steps[Len(pout'.final_steps)] # <<>>
             /\ pout'.remaining # <<>>
             /\ Len(pout'.remaining) < Len(pout.remaining)]_vars
    /\ <>(pout.kind = "split" /\ pout.pc = "done")

\* The loop was left after three iterations or more, one of them a hard
\* split at the limit.
C30_Witness ==
    /\ pout.kind = "split" /\ pout.pc = "done"
    /\ Len(pout.final_steps) >= 4
    /\ pout.split_pos = MAX_STEP_LENGTH

\* C22: get_random_recipes(count) makes count requests, each its own task of
\* the gather; it never raises, and once every request is answered, in
\* whatever order, it returns one recipe for each request that succeeded
\* and nothing for the others: between 0 and count recipes.
C22_RandomOnePerSuccess ==
    \A o \in Ops :
        op[o].kind = "random" =>
            /\ (op[o].phase = "waiting" => Len(op[o].reqs) = op[o].n)
            /\ (Finished(o) =>
                   /\ op[o].result.kind = "ok"
                   /\ Len(op[o].result.val) = op[o].oks
                   /\ Len(op[o].result.val) \in 0..op[o].n)

\* A random call of two requests, both in flight at once, returned the one
\* recipe of the request that succeeded; the other request failed.
C22_Witness ==
    \E o \in Ops :
        /\ op[o].kind = "random" /\ Finished(o)
        /\ op[o].n = 2 /\ op[o].fails = 1 /\ op[o].oks = 1
        /\ Len(op[o].result.val) = 1

\* C28: at most one session is open at any time and it is the adapter's
\* current one, the one close() closes; the requests in flight went out on
\* sessions the adapter created, and requests that start while a session is
\* open all use that session.
C28_OneSharedSession ==
    /\ Cardinality(openSessions) <= 1
    /\ openSessions \subseteq {sessionId}
    /\ (openSessions # {} <=> session = "open")
    /\ \A o \in Ops :
          /\ op[o].used \subseteq 1..sessionId
          /\ (op[o].phase = "waiting" /\ sessionId = 1 /\ op[o].used # {}
                => op[o].used = {1})

\* The two requests of a random call and the request of another operation,
\* all started while no session had been created, are in flight on the one
\* session.
C28_Witness ==
    \E o1, o2 \in Ops :
        /\ op[o1].kind = "random" /\ Len(op[o1].reqs) = 2
        /\ \A i \in 1..2 : op[o1].reqs[i].st = "sent"
        /\ op[o2].kind = "search" /\ op[o2].phase = "waiting"
        /\ op[o1].used = {1} /\ op[o2].used = {1}
        /\ sessionId = 1 /\ openSessions = {1}

\* C23: a search request whose query is blank or shorter than 2 characters
\* once trimmed is answered 400 at once, and neither the store search nor
\* the provider request of that request is ever started; every other query
\* goes to combined_search trimmed.
C23_ShortQueryRejected ==
    \A c \in Calls :
        pc[c] # "idle" =>
            IF Len(Trimmed(rawQuery[c])) < 2
            THEN /\ resp[c].status = 400
                 /\ pc[c] = "done"
                 /\ task[c] = [int |-> "none", ext |-> "none"]
                 /\ out[c] = [int |-> Pending, ext |-> Pending]
                 /\ \A i \in 1..Len(accepted) : accepted[i] # c
                 /\ \A i \in 1..Len(readyQ) : readyQ[i].call # c
            ELSE /\ query[c] = Trimmed(rawQuery[c])
                 /\ task[c].int # "none" /\ task[c].ext # "none"
                 /\ \E i \in 1..Len(accepted) : accepted[i] = c
                 /\ resp[c].status # 400

\* One request was refused for a query of one letter and a space while the
\* other, with a padded query, has its provider request in flight.
C23_Witness ==
    \E c, d \in Calls :
        /\ rawQuery[c] = <<"p", " ">> /\ resp[c].status = 400
        /\ rawQuery[d] = <<" ", "P", "a", " ">> /\ query[d] = <<"P", "a">>
        /\ task[d].ext = "waiting"

\* C24: GET /api/recipes/random is answered by the random-batch handler,
\* with 200 and at most count recipes, all of the provider, or with 400;
\* it is never answered as a lookup of the recipe id "random".
C24_RandomServedByBatch ==
    crud.op # "none" /\ crud.rid = RandomSegment =>
        /\ crud.op = "random"
        /\ crud.status \in {200, 400}
        /\ Len(crud.result) <= RandomCountMax
        /\ \A i \in 1..Len(crud.result) : crud.result[i].source = "external"

\* Some recipe of the catalog other than the one with id `except` has the
\* title, letter case aside.
TitleHeld(recipes, title, except) ==
    \E i \in 1..Len(recipes) :
        /\ recipes[i].source = "internal"
        /\ recipes[i].id # except
        /\ Lower(recipes[i].title) = Lower(title)

\* The store has a recipe of the catalog with the id.
Holds(recipes, id) ==
    \E i \in 1..Len(recipes) : recipes[i].id = id /\ recipes[i].source = "internal"

\* C25: a create whose title is, letter case aside, the title of a recipe of
\* the catalog is answered 409, and so is an update of a recipe of the
\* catalog to the title of another one; neither changes the store.
C25_DuplicateTitleRefused ==
    [][ /\ (crud'.op = "create" /\ (crud' # crud \/ store' # store)
              /\ TitleHeld(store, crud'.title, <<>>)
            => crud'.status = 409 /\ store' = store)
        /\ (crud'.op = "update" /\ (crud' # crud \/ store' # store)
              /\ Holds(store, Strip(crud'.rid))
              /\ TitleHeld(store, crud'.title, Strip(crud'.rid))
            => crud'.status = 409 /\ store' = store) ]_vars

\* The update of a created recipe to the title, in another letter case, of
\* a recipe the store had from the start was refused.
C25_Witness ==
    /\ crud.op = "update" /\ crud.status = 409
    /\ Strip(crud.rid) = InternalId(<<"5">>)
    /\ crud.title = <<"p", "a">>
    /\ \E i, j \in 1..Len(store) :
          /\ store[i].id = InternalId(<<"5">>) /\ store[i].title = <<"Q">>
          /\ store[j].id = InternalId(<<"1">>) /\ store[j].title = <<"P", "a">>

\* The ids create can give.
CreatedIds == { InternalId(k) : k \in UuidKeys }

\* C26: a create answered 201 puts its recipe, under a new id X, in the
\* store; X stays there until a delete of X is answered 200; while X is
\* there a GET of X is answered 200 with the recipe X and a DELETE of X is
\* answered 200 and removes it; once removed X never comes back, so only one
\* delete of X is answered 200; a GET or DELETE of an X that is not there,
\* removed or never created, is answered 404.
C26_RecipeLifecycle ==
    [][ /\ (crud'.op = "create" /\ crud'.status = 201 /\ crud' # crud
            => LET X == crud'.result[1].id
               IN  X \notin uuids /\ ~Holds(store, X) /\ Holds(store', X) /\ X \in uuids')
        /\ \A X \in CreatedIds :
              /\ (Holds(store, X) /\ ~Holds(store', X)
                  => crud'.op = "delete" /\ Strip(crud'.rid) = X /\ crud'.status = 200)
              /\ (X \in uuids /\ ~Holds(store, X) => ~Holds(store', X))
              /\ (crud'.op = "get" /\ Strip(crud'.rid) = X /\ crud' # crud /\ ~GetPending
                  => IF Holds(store, X)
                     THEN /\ crud'.status = 200
                          /\ Len(crud'.result) = 1 /\ crud'.result[1].id = X
                     ELSE GetPending')
              /\ (GetPending /\ Strip(crud.rid) = X /\ crud' # crud
                  => crud'.status = 404)
              /\ (crud'.op = "delete" /\ Strip(crud'.rid) = X
                    /\ (crud' # crud \/ store' # store)
                  => IF Holds(store, X)
                     THEN crud'.status = 200 /\ ~Holds(store', X)
                     ELSE crud'.status = 404 /\ store' = store) ]_vars

\* A recipe was created and deleted, and a second delete of it was answered
\* 404.
C26_Witness ==
    /\ InternalId(<<"5">>) \in uuids
    /\ ~Holds(store, InternalId(<<"5">>))
    /\ crud.op = "delete" /\ Strip(crud.rid) = InternalId(<<"5">>)
    /\ crud.status = 404

\* C27: GET /api/recipes/{id} asks the provider only after the store had no
\* recipe with the id, and not at all when the store has one; it answers 404
\* only after both had none, a provider request that ended in a timeout, a
\* transport error, a bad status or a malformed body counting as none, and
\* it never answers 500.
C27_LocalThenRemote ==
    /\ [](crud.op = "get" =>
             /\ crud.status # 500
             /\ (crud.status = 404 =>
                    /\ crud.remote \notin {"none", "pending"}
                    /\ ~Holds(store, Strip(crud.rid))))
    /\ [][ /\ (~GetPending /\ GetPending'
                => Strip(crud'.rid) # <<>> /\ ~Holds(store, Strip(crud'.rid)))
            /\ (~GetPending /\ crud'.op = "get" /\ crud' # crud
                  /\ Holds(store, Strip(crud'.rid))
                => /\ crud'.status = 200 /\ crud'.remote = "none"
                   /\ crud'.result[1].id = Strip(crud'.rid)
                   /\ UNCHANGED <<session, sessionId, openSessions>>)
            /\ (GetPending /\ crud' # crud
                => /\ crud'.status \in {200, 404}
                   /\ (crud'.remote \in FailureKinds \cup {"null"} => crud'.status = 404)
                   /\ (crud'.status = 200 =>
                          crud'.remote = "ok" /\ crud'.result[1].source = "external")) ]_vars

\* The store had no recipe with the id, the provider request timed out and
\* the answer was 404.
C27_Witness ==
    /\ crud.op = "get" /\ crud.rid = ExternalId(<<"1">>)
    /\ crud.status = 404 /\ crud.remote = "timeout"

\* C29: whatever the interleaving of the create, update and delete requests
\* the threads handle, no two recipes of the catalog have titles that are
\* equal letter case aside.
C29_TitlesStayUnique ==
    \A i, j \in 1..Len(store) :
        (i # j /\ store[i].source = "internal" /\ store[j].source = "internal")
            => Lower(store[i].title) # Lower(store[j].title)

====
